---- MODULE Spec2Model ----
(***************************************************************************)
(* See-My-Speech: the job coordination of AudioTranscriptionApp            *)
(* (src/ui/main_window.py) with its two QThread workers                    *)
(* (src/workers/transcription_worker.py, src/workers/model_loader.py).     *)
(*                                                                         *)
(* One control (GUI) thread runs the window's slots one at a time; every   *)
(* worker is a thread of its own.  A signal emitted by a worker is queued  *)
(* to the control thread (Qt queued connection) and delivered in posting   *)
(* order.  QThread.wait() blocks the control thread until the worker's     *)
(* thread has finished; nothing is delivered while it blocks.              *)
(***************************************************************************)
EXTENDS Integers, Sequences, FiniteSets

\* ------------------------------------------------------------------ bounds
\* Transcription workers / model loaders created over one run of the window,
\* under Spec: two of each, so that jobs can overlap.
MaxTranscriptions == 2
MaxLoads == 2
\* The same under SpecOneJob, where one job of each kind is followed through
\* every path of its run.
OneJobTranscriptions == 1
OneJobLoads == 1

\* The history manager: dicts alive, entries in a history, clock readings.
MaxResults == 2
MaxEntries == 2
MaxTime == 1

\* The most memory a host has free, in the units of host_ram.
MaxRam == 36

\* ------------------------------------------------------------------ values
\* Entries of model_combo (two of the five keep the run small).
Tiers == {"tiny", "base"}

\* Paths the file dialog can return.
Files == {"/in/a.wav", "/in/b.wav"}

NoFileSelected == "No file selected"

\* os.path.basename on the paths above.
basename(p) == IF p = "/in/a.wav" THEN "a.wav" ELSE "b.wav"

\* None for the references self.model, self.transcription_worker,
\* self.model_loader; workers and loaders are named by their position in
\* tworkers / loaders, a model by the loader that produced it.
None == 0

VARIABLES
    model,                  \* self.model: None or the loader whose load it is
    model_combo,            \* model_combo.currentText()
    transcription_worker,   \* self.transcription_worker: None or a worker
    model_loader,           \* self.model_loader: None or a loader
    tworkers,               \* every TranscriptionWorker created so far
    loaders,                \* every ModelLoader created so far
    events,                 \* signals queued to the control thread, oldest first
    file_path_label,        \* file_path_label.text()
    transcribe_btn,         \* transcribe_btn.isEnabled()
    cancel_btn,             \* cancel_btn.isEnabled()
    history,                \* history_manager.history
    transcription_history,  \* self.transcription_history
    history_list,           \* Qt.UserRole data of the items of history_list
    ctl                     \* where the control thread is

\* The HistoryManager the window owns, in the detail its own contract needs:
\* the dicts it is handed are objects the caller still holds.
VARIABLES
    objects,                \* every dict alive, by reference: objects[o]
    hm_history,             \* HistoryManager.history: references, in order
    hm_type,                \* the Python type of HistoryManager.history
    history_file,           \* what the file at self.history_file holds
    output_file,            \* what the file at output_path holds
    clock,                  \* time.time()
    returned,               \* what the last call on the manager returned
    last_call,              \* that call: the method, and len(history) then
    hm_pc                   \* "new" before __init__ ran, "ready" after

hvars == <<objects, hm_history, hm_type, history_file, output_file, clock,
           returned, last_call, hm_pc>>

wvars == <<model, model_combo, transcription_worker, model_loader, tworkers,
           loaders, events, file_path_label, transcribe_btn, cancel_btn,
           history, transcription_history, history_list, ctl>>

\* The host as SystemChecker sees it, and what check_system made of it.
VARIABLES
    host_ram,               \* psutil.virtual_memory().available
    host_cuda,              \* torch.cuda.is_available()
    system_info,            \* the dict the last check_system returned
    check_outcome           \* how the last check_system ended

pvars == <<host_ram, host_cuda, system_info, check_outcome>>

vars == <<wvars, hvars, pvars>>

\* ------------------------------------------------- the history's values

\* The keys of a transcription result, in the order the worker and then
\* add_transcription insert them (json.dump writes a dict in that order).
KeyOrder == <<"text", "language", "file_path", "file_name", "timestamp", "date">>

Digits == <<"0", "1", "2", "3", "4", "5", "6", "7", "8", "9">>

\* time.strftime('%Y-%m-%d %H:%M:%S') at clock reading t
strftime(t) == "2026-01-01 00:00:0" \o Digits[t + 1]

\* A dict is a function on the keys it has. d[k] = v on a dict:
DictSet(d, k, v) ==
    [x \in DOMAIN d \cup {k} |-> IF x = k THEN v ELSE d[x]]

\* d.get(k, default)
DictGet(d, k, default) == IF k \in DOMAIN d THEN d[k] ELSE default

\* The result callers hand over is the dict TranscriptionWorker.run builds;
\* a history file may hold an entry with fewer keys.
WorkerResult ==
    [text |-> "hello", language |-> "en", file_path |-> "/in/a.wav",
     file_name |-> "a.wav"]
BareResult == [text |-> "bye", file_name |-> "b.wav"]
NewResults == {WorkerResult}

\* What a file holds: nothing (no such file), text json.load rejects, a
\* JSON object, or a JSON array of objects, each the list of its
\* key/value pairs in the order written.
Absent == [kind |-> "absent"]
Unparseable == [kind |-> "unparseable"]
JsonObject == [kind |-> "object"]
JsonArray(items) == [kind |-> "array", items |-> items]

\* A dump that leaves out what add_transcription put in.
EncodeDictAsHanded(d) ==
    LET ks == SelectSeq(KeyOrder, LAMBDA k : k \in DOMAIN d
                                            /\ k \notin {"timestamp", "date"})
    IN  [i \in 1..Len(ks) |-> <<ks[i], d[ks[i]]>>]

\* json.dump of one dict: its pairs, in insertion order.
EncodeDict(d) ==
    LET ks == SelectSeq(KeyOrder, LAMBDA k : k \in DOMAIN d)
    IN  [i \in 1..Len(ks) |-> <<ks[i], d[ks[i]]>>]

\* json.load of one object: the dict of its pairs.
DecodeDict(ps) ==
    [k \in {ps[i][1] : i \in 1..Len(ps)} |->
        ps[CHOOSE i \in 1..Len(ps) : ps[i][1] = k][2]]

\* ------------------------------------------------------------ the threads
\* QThread.isRunning(): true from start() until the thread has finished.
isRunning(t) == t.pc # "done"

\* The signals that end a job's stream; progress is the only other one.
Terminal == {"finished", "error"}

\* The signals of `sigs` a slot of the window acts on.  progress reaches
\* update_status, which rewrites the status bar and nothing else: it stays
\* in the job's emitted stream and takes no place in the queue.
Terminals(sigs) == SelectSeq(sigs, LAMBDA s : s \in Terminal)

\* Signals emitted by worker `id` of class `src`, as queued to the window.
Post(q, src, id, sigs) ==
    q \o [i \in 1..Len(Terminals(sigs)) |->
            [src |-> src, id |-> id, sig |-> Terminals(sigs)[i]]]

\* TranscriptionWorker.__init__; missing, called and emitted describe the
\* run: whether os.path.exists found no file, whether model.transcribe was
\* invoked, and the signals emitted so far.
NewTranscriptionWorker(m, f) ==
    [model |-> m, audio_file |-> f, is_cancelled |-> FALSE, pc |-> "start",
     missing |-> FALSE, called |-> FALSE, emitted |-> <<>>]

\* ModelLoader.__init__
NewModelLoader(size) ==
    [model_size |-> size, pc |-> "start", emitted |-> <<>>]

\* RunPrologue without its first test: the worker goes to the model whether
\* or not the file is there.
RunPrologueNoFileTest(t, found, sized) ==
    IF t.model = None THEN [sigs |-> <<"error">>, returns |-> TRUE]
    ELSE IF ~sized THEN [sigs |-> <<"progress", "error">>, returns |-> TRUE]
    ELSE [sigs |-> <<"progress", "progress">>, returns |-> FALSE]

\* RunPrologue with a test of the flag before anything else: a run flagged
\* before the call returns at once.
RunPrologueTestsFlag(t, found, sized) ==
    IF t.is_cancelled THEN [sigs |-> <<>>, returns |-> TRUE]
    ELSE IF ~found THEN [sigs |-> <<"error">>, returns |-> TRUE]
    ELSE IF t.model = None THEN [sigs |-> <<"error">>, returns |-> TRUE]
    ELSE IF ~sized THEN [sigs |-> <<"progress", "error">>, returns |-> TRUE]
    ELSE [sigs |-> <<"progress", "progress">>, returns |-> FALSE]

\* TranscriptionWorker.run up to the external call: what it emits, and
\* whether run() returns there instead of going on to the call.
\* found: os.path.exists; sized: os.path.getsize did not raise (the file can
\* vanish after the first test).
RunPrologue(t, found, sized) ==
    IF ~found THEN [sigs |-> <<"error">>, returns |-> TRUE]
    ELSE IF t.model = None THEN [sigs |-> <<"error">>, returns |-> TRUE]
    ELSE IF ~sized THEN [sigs |-> <<"progress", "error">>, returns |-> TRUE]
    ELSE [sigs |-> <<"progress", "progress">>, returns |-> FALSE]

\* ObservesCancel with the flag never read.
ObservesCancelNever(t) == FALSE

\* The test of the flag after the external call returned.
ObservesCancel(t) == t.is_cancelled

\* SuccessSignals with the two emits in the other order.
SuccessSignalsReversed == <<"finished", "progress">>

\* What run() emits once the result is formatted.
SuccessSignals == <<"progress", "finished">>

\* TranscriptionWorker.run from the external call on.  raised: the provider
\* raised, and the handler of run() turns it into an error signal.
RunEpilogue(t, raised) ==
    IF raised THEN <<"error">>
    ELSE IF ObservesCancel(t) THEN <<>>
    ELSE SuccessSignals

\* ModelLoader.run after whisper.load_model returned or raised.
LoadEpilogue(raised) ==
    IF raised THEN <<"error">> ELSE <<"progress", "finished">>

WorkerIds == 1..Len(tworkers)
LoaderIds == 1..Len(loaders)

ControlUnchanged ==
    UNCHANGED <<model, model_combo, transcription_worker, model_loader,
                file_path_label, transcribe_btn, cancel_btn, history, hvars, pvars,
                transcription_history, history_list, ctl>>

\* The process has not left closeEvent for good.
Alive == ctl # "closed"

\* run(): file test, model test, the two progress messages.
WorkerBegin(w) ==
    /\ Alive
    /\ tworkers[w].pc = "start"
    /\ \E found \in BOOLEAN, sized \in BOOLEAN :
         LET r == RunPrologue(tworkers[w], found, sized) IN
           /\ tworkers' = [tworkers EXCEPT
                 ![w].pc = IF r.returns THEN "exit" ELSE "calling",
                 ![w].missing = ~found,
                 ![w].called = ~r.returns,
                 ![w].emitted = @ \o r.sigs]
           /\ events' = Post(events, "T", w, r.sigs)
    /\ UNCHANGED loaders
    /\ ControlUnchanged

\* run(): model.transcribe returns or raises; flag test; result signals.
WorkerTranscribe(w) ==
    /\ Alive
    /\ tworkers[w].pc = "calling"
    /\ \E raised \in BOOLEAN :
         LET sigs == RunEpilogue(tworkers[w], raised) IN
           /\ tworkers' = [tworkers EXCEPT
                 ![w].pc = "exit",
                 ![w].emitted = @ \o sigs]
           /\ events' = Post(events, "T", w, sigs)
    /\ UNCHANGED loaders
    /\ ControlUnchanged

\* run() has returned: the thread finishes.  missing, called and emitted are
\* kept for as long as there is a run to describe.
WorkerExit(w) ==
    /\ Alive
    /\ tworkers[w].pc = "exit"
    /\ tworkers' = [tworkers EXCEPT ![w].pc = "done",
                                    ![w].missing = FALSE,
                                    ![w].called = FALSE,
                                    ![w].emitted = <<>>]
    /\ UNCHANGED <<loaders, events>>
    /\ ControlUnchanged

\* ModelLoader.run: the two progress messages, then into whisper.load_model.
LoaderBegin(l) ==
    /\ Alive
    /\ loaders[l].pc = "start"
    /\ loaders' = [loaders EXCEPT
          ![l].pc = "loading",
          ![l].emitted = @ \o <<"progress", "progress">>]
    /\ events' = Post(events, "L", l, <<"progress", "progress">>)
    /\ UNCHANGED tworkers
    /\ ControlUnchanged

\* ModelLoader.run: whisper.load_model returns or raises.
LoaderLoad(l) ==
    /\ Alive
    /\ loaders[l].pc = "loading"
    /\ \E raised \in BOOLEAN :
         LET sigs == LoadEpilogue(raised) IN
           /\ loaders' = [loaders EXCEPT
                 ![l].pc = "exit",
                 ![l].emitted = @ \o sigs]
           /\ events' = Post(events, "L", l, sigs)
    /\ UNCHANGED tworkers
    /\ ControlUnchanged

\* ModelLoader.run has returned: the thread finishes.
LoaderExit(l) ==
    /\ Alive
    /\ loaders[l].pc = "exit"
    /\ loaders' = [loaders EXCEPT ![l].pc = "done", ![l].emitted = <<>>]
    /\ UNCHANGED <<tworkers, events>>
    /\ ControlUnchanged

\* ------------------------------------------------------ the control thread
\* The window's slots run only while the control thread is in its event loop.
Ready == ctl = "run"

\* load_model's early return: a loader exists and its thread is running.
LoaderBusy == model_loader # None /\ isRunning(loaders[model_loader])

\* load_model without its early return: a loader is made whether or not one
\* is running.
load_modelWhileRunning(size) ==
    /\ loaders' = Append(loaders, NewModelLoader(size))
    /\ model_loader' = Len(loaders) + 1

\* load_model(model_size)
load_model(size) ==
    IF LoaderBusy
    THEN UNCHANGED <<loaders, model_loader>>
    ELSE /\ loaders' = Append(loaders, NewModelLoader(size))
         /\ model_loader' = Len(loaders) + 1

\* model_combo.currentTextChanged -> on_model_changed
OnModelChanged(t, maxLoads) ==
    /\ Ready
    /\ t # model_combo
    /\ LoaderBusy \/ Len(loaders) < maxLoads
    /\ model_combo' = t
    /\ load_model(t)
    /\ UNCHANGED <<model, transcription_worker, tworkers, events,
                   file_path_label, transcribe_btn, cancel_btn, history, hvars, pvars,
                   transcription_history, history_list, ctl>>

\* reload_model_btn.clicked -> reload_current_model
ReloadCurrentModel(maxLoads) ==
    /\ Ready
    /\ LoaderBusy \/ Len(loaders) < maxLoads
    /\ model' = None
    /\ load_model(model_combo)
    /\ UNCHANGED <<model_combo, transcription_worker, tworkers, events,
                   file_path_label, transcribe_btn, cancel_btn, history, hvars, pvars,
                   transcription_history, history_list, ctl>>

\* browse_btn.clicked -> browse_file, a file chosen in the dialog
BrowseFile(f) ==
    /\ Ready
    /\ file_path_label' = f
    /\ transcribe_btn' = TRUE
    /\ UNCHANGED <<model, model_combo, transcription_worker, model_loader,
                   tworkers, loaders, events, cancel_btn, history, hvars, pvars,
                   transcription_history, history_list, ctl>>

\* The tests start_transcription makes before it creates a worker:
\* "" = it goes on, otherwise the warning it shows before returning.
StartRefusal ==
    IF file_path_label = NoFileSelected THEN "select_file"
    ELSE IF model = None THEN "model_not_loaded"
    ELSE ""

\* transcribe_btn.clicked -> start_transcription
StartTranscription(maxTranscriptions) ==
    /\ Ready
    /\ transcribe_btn
    /\ IF StartRefusal # ""
       THEN UNCHANGED <<tworkers, transcription_worker, transcribe_btn,
                        cancel_btn>>
       ELSE /\ Len(tworkers) < maxTranscriptions
            /\ tworkers' = Append(tworkers,
                                  NewTranscriptionWorker(model, file_path_label))
            /\ transcription_worker' = Len(tworkers) + 1
            /\ transcribe_btn' = FALSE
            /\ cancel_btn' = TRUE
    /\ UNCHANGED <<model, model_combo, model_loader, loaders, events,
                   file_path_label, history, hvars, pvars, transcription_history,
                   history_list, ctl>>

\* TranscriptionWorker.cancel
cancel(t) == [t EXCEPT !.is_cancelled = TRUE]

\* cancel_btn.clicked -> cancel_transcription, up to and into wait()
CancelTranscription ==
    /\ Ready
    /\ cancel_btn
    /\ IF transcription_worker # None
       THEN /\ tworkers' = [tworkers EXCEPT ![transcription_worker] = cancel(@)]
            /\ ctl' = "cancel_wait"
            /\ UNCHANGED <<transcribe_btn, cancel_btn>>
       ELSE /\ transcribe_btn' = TRUE
            /\ cancel_btn' = FALSE
            /\ UNCHANGED <<tworkers, ctl>>
    /\ UNCHANGED <<model, model_combo, transcription_worker, model_loader,
                   loaders, events, file_path_label, history, hvars, pvars,
                   transcription_history, history_list>>

\* cancel_transcription returning from wait() without touching the buttons.
CancelReturnKeepsButtons ==
    /\ ctl = "cancel_wait"
    /\ ~isRunning(tworkers[transcription_worker])
    /\ ctl' = "run"
    /\ UNCHANGED <<model, model_combo, transcription_worker, model_loader,
                   tworkers, loaders, events, file_path_label, transcribe_btn,
                   cancel_btn, history, hvars, pvars, transcription_history,
                   history_list>>

\* cancel_transcription: wait() returns, the buttons are reset
CancelReturn ==
    /\ ctl = "cancel_wait"
    /\ ~isRunning(tworkers[transcription_worker])
    /\ transcribe_btn' = TRUE
    /\ cancel_btn' = FALSE
    /\ ctl' = "run"
    /\ UNCHANGED <<model, model_combo, transcription_worker, model_loader,
                   tworkers, loaders, events, file_path_label, history, hvars, pvars,
                   transcription_history, history_list>>

\* The signal the event loop delivers next.
NextEvent(src, sig) ==
    /\ Ready
    /\ events # <<>>
    /\ Head(events).src = src
    /\ Head(events).sig = sig

\* Result taken from the label of the window when the signal is handled,
\* not from the worker that ran.
ResultFromLabel(t) ==
    [file_path |-> file_path_label, file_name |-> basename(file_path_label)]

\* The dict TranscriptionWorker.run hands to finished.
Result(t) == [file_path |-> t.audio_file, file_name |-> basename(t.audio_file)]

\* add_transcription putting the entry at the head of the list.
add_transcriptionFirst(h, result) == <<result>> \o h

\* HistoryManager.add_transcription
add_transcription(h, result) == Append(h, result)

\* TranscriptionWorker.finished -> on_transcription_finished -> add_to_history
OnTranscriptionFinished ==
    /\ NextEvent("T", "finished")
    /\ events' = Tail(events)
    /\ transcribe_btn' = TRUE
    /\ cancel_btn' = FALSE
    /\ LET result == Result(tworkers[Head(events).id]) IN
         /\ transcription_history' = Append(transcription_history, result)
         /\ history' = add_transcription(history, result)
         /\ history_list' = Append(history_list, Len(transcription_history))
    /\ UNCHANGED <<model, model_combo, transcription_worker, model_loader,
                   tworkers, loaders, file_path_label, ctl, hvars, pvars>>

\* TranscriptionWorker.error -> on_transcription_error
OnTranscriptionError ==
    /\ NextEvent("T", "error")
    /\ events' = Tail(events)
    /\ transcribe_btn' = TRUE
    /\ cancel_btn' = FALSE
    /\ UNCHANGED <<model, model_combo, transcription_worker, model_loader,
                   tworkers, loaders, file_path_label, history, hvars, pvars,
                   transcription_history, history_list, ctl>>

\* ModelLoader.finished -> on_model_loaded
OnModelLoaded ==
    /\ NextEvent("L", "finished")
    /\ events' = Tail(events)
    /\ model' = Head(events).id
    /\ transcribe_btn' = TRUE
    /\ UNCHANGED <<model_combo, transcription_worker, model_loader, tworkers,
                   loaders, file_path_label, cancel_btn, history, hvars, pvars,
                   transcription_history, history_list, ctl>>

\* ModelLoader.error -> on_model_error
OnModelError ==
    /\ NextEvent("L", "error")
    /\ events' = Tail(events)
    /\ UNCHANGED <<model, model_combo, transcription_worker, model_loader,
                   tworkers, loaders, file_path_label, transcribe_btn,
                   cancel_btn, history, hvars, pvars, transcription_history, history_list,
                   ctl>>

\* clear_history_btn.clicked -> clear_history, answered Yes
ClearHistory ==
    /\ Ready
    /\ transcription_history' = <<>>
    /\ history_list' = <<>>
    /\ history' = <<>>
    /\ UNCHANGED <<model, model_combo, transcription_worker, model_loader,
                   tworkers, loaders, events, file_path_label, transcribe_btn,
                   cancel_btn, ctl, hvars, pvars>>

\* closeEvent after its wait on the transcription worker (or with none to
\* wait for): into the wait on the model loader, or to the end.
AfterTranscriptionWait ==
    IF LoaderBusy THEN "close_wait_loader" ELSE "closed"

\* closeEvent, up to its first wait
CloseEvent ==
    /\ Ready
    /\ IF transcription_worker # None /\ isRunning(tworkers[transcription_worker])
       THEN /\ tworkers' = [tworkers EXCEPT ![transcription_worker] = cancel(@)]
            /\ ctl' = "close_wait_worker"
       ELSE /\ ctl' = AfterTranscriptionWait
            /\ UNCHANGED tworkers
    /\ UNCHANGED <<model, model_combo, transcription_worker, model_loader,
                   loaders, events, file_path_label, transcribe_btn,
                   cancel_btn, history, hvars, pvars, transcription_history, history_list>>

\* closeEvent: transcription_worker.wait() returns
CloseWorkerJoined ==
    /\ ctl = "close_wait_worker"
    /\ ~isRunning(tworkers[transcription_worker])
    /\ ctl' = AfterTranscriptionWait
    /\ UNCHANGED <<model, model_combo, transcription_worker, model_loader,
                   tworkers, loaders, events, file_path_label, transcribe_btn,
                   cancel_btn, history, hvars, pvars, transcription_history, history_list>>

\* closeEvent: model_loader.wait() returns, event.accept()
CloseLoaderJoined ==
    /\ ctl = "close_wait_loader"
    /\ ~isRunning(loaders[model_loader])
    /\ ctl' = "closed"
    /\ UNCHANGED <<model, model_combo, transcription_worker, model_loader,
                   tworkers, loaders, events, file_path_label, transcribe_btn,
                   cancel_btn, history, hvars, pvars, transcription_history, history_list>>

\* ------------------------------------------------------- HistoryManager

\* The entries of the history by value, as a caller reads them.
Entries(hist, objs) == [i \in 1..Len(hist) |-> objs[hist[i]]]

\* json.dump(self.history, f, ...): a list of dicts, or the dict that
\* load_history took from a file holding a JSON object.
json_dump(type, hist, objs) ==
    IF type = "list"
    THEN JsonArray([i \in 1..Len(hist) |-> EncodeDict(objs[hist[i]])])
    ELSE JsonObject

\* load_history on a file: the type and the entries self.history gets.
\* No file: the [] of __init__ stays. json.load raising: []. Otherwise
\* whatever json.load returned.
load_history(file) ==
    IF file.kind \in {"absent", "unparseable"}
    THEN [type |-> "list", items |-> <<>>]
    ELSE IF file.kind = "object"
    THEN [type |-> "dict", items |-> <<>>]
    ELSE [type |-> "list",
          items |-> [i \in 1..Len(file.items) |-> DecodeDict(file.items[i])]]

\* How a write of a file ends: written in full, open() raising (the file
\* is as before), or an exception after open() truncated it.
WriteOutcomes == {"written", "not_opened", "cut_short"}

\* save_history: the file afterwards. Every exception is caught and printed.
save_history(outcome, type, hist, objs) ==
    IF outcome = "written" THEN json_dump(type, hist, objs)
    ELSE IF outcome = "not_opened" THEN history_file
    ELSE Unparseable

\* HistoryManager.__init__ on the file as it is
HistoryManagerInit ==
    /\ hm_pc = "new"
    /\ LET loaded == load_history(history_file) IN
         /\ objects' = loaded.items
         /\ hm_history' = [i \in 1..Len(loaded.items) |-> i]
         /\ hm_type' = loaded.type
    /\ hm_pc' = "ready"
    /\ UNCHANGED <<history_file, output_file, clock, returned, last_call, wvars, pvars>>

\* save_history letting the exception of a failed write out to its caller.
SaveRaisesOnFailure(outcome) == outcome # "written"

\* save_history's except clause: nothing gets out of it.
SaveRaises(outcome) == FALSE

\* What a method that ends in save_history hands its caller.
AfterSave(outcome) == IF SaveRaises(outcome) THEN "OSError" ELSE "None"

\* The list put back as it was when the write failed.
RollBackOnFailure(outcome, before, after) ==
    IF outcome = "written" THEN after ELSE before

\* add_transcription, clear_history and remove_item change the list first
\* and call save_history last: the list they leave is the changed one,
\* however the write ended.
KeepMutation(outcome, before, after) == after

HmReady == hm_pc = "ready"

\* A call of a method, on the history as long as it is now.
Call(method) == [method |-> method, len |-> Len(hm_history)]
ObjectIds == 1..Len(objects)

\* A caller builds a result dict.
NewResult(r) ==
    /\ HmReady
    /\ Len(objects) < MaxResults
    /\ objects' = Append(objects, r)
    /\ UNCHANGED <<hm_history, hm_type, history_file, output_file, clock,
                   returned, last_call, hm_pc, wvars, pvars>>

\* Time passes.
Tick ==
    /\ HmReady
    /\ clock < MaxTime
    /\ clock' = clock + 1
    /\ UNCHANGED <<objects, hm_history, hm_type, history_file, output_file,
                   returned, last_call, hm_pc, wvars, pvars>>

\* add_transcription's first two statements: the result itself gets the
\* time, whatever it held.
Stamp(d, t) == DictSet(DictSet(d, "timestamp", t), "date", strftime(t))

\* add_transcription(result) on the dict o. On a history that is not a
\* list, append raises after the result was stamped.
AddTranscriptionCall(o, outcome) ==
    /\ HmReady
    /\ last_call' = Call("add_transcription")
    /\ Len(hm_history) < MaxEntries
    /\ objects' = [objects EXCEPT ![o] = Stamp(@, clock)]
    /\ IF hm_type = "list"
       THEN /\ hm_history' = KeepMutation(outcome, hm_history,
                                          Append(hm_history, o))
            /\ history_file' = save_history(outcome, hm_type, hm_history',
                                            objects')
            /\ returned' = AfterSave(outcome)
       ELSE /\ outcome = "written"
            /\ returned' = "AttributeError"
            /\ UNCHANGED <<hm_history, history_file>>
    /\ UNCHANGED <<hm_type, output_file, clock, hm_pc, wvars, pvars>>

\* get_history(): a new list of the same dicts, so the caller holds every
\* dict of the history by reference.
GetHistoryCall ==
    /\ HmReady
    /\ last_call' = Call("get_history")
    /\ returned' = "list"
    /\ UNCHANGED <<objects, hm_history, hm_type, history_file, output_file,
                   clock, hm_pc, wvars, pvars>>

\* The caller writes to a dict it holds: one it built, or one it took from
\* the list get_history gave it.
CallerEditsEntry(o) ==
    /\ HmReady
    /\ objects[o].text # "edited"
    /\ objects' = [objects EXCEPT ![o] = DictSet(@, "text", "edited")]
    /\ UNCHANGED <<hm_history, hm_type, history_file, output_file, clock,
                   returned, last_call, hm_pc, wvars, pvars>>

\* clear_history()
ClearHistoryCall(outcome) ==
    /\ HmReady
    /\ last_call' = Call("clear_history")
    /\ hm_history' = KeepMutation(outcome, hm_history, <<>>)
    /\ history_file' = save_history(outcome, hm_type, hm_history', objects)
    /\ returned' = AfterSave(outcome)
    /\ UNCHANGED <<objects, hm_type, output_file, clock, hm_pc, wvars, pvars>>

\* The range test without its lower bound.
InRangeNoLowerBound(index, hist) == index < Len(hist)

\* 0 <= index < len(self.history)
InRange(index, hist) == 0 <= index /\ index < Len(hist)

\* list.pop() without the index: the last item goes.
popLast(hist, index) == SubSeq(hist, 1, Len(hist) - 1)

\* list.pop(index); a negative index counts from the end.
pop(hist, index) ==
    LET k == IF index < 0 THEN Len(hist) + index ELSE index
    IN  [i \in 1..(Len(hist) - 1) |-> IF i <= k THEN hist[i] ELSE hist[i + 1]]

\* The indices callers pass.
Indices == -1..MaxEntries

\* remove_item(index)
RemoveItemCall(index, outcome) ==
    /\ HmReady
    /\ last_call' = Call("remove_item")
    /\ IF InRange(index, hm_history)
       THEN /\ hm_history' = KeepMutation(outcome, hm_history,
                                          pop(hm_history, index))
            /\ history_file' = save_history(outcome, hm_type, hm_history',
                                            objects)
            /\ returned' = AfterSave(outcome)
       ELSE /\ outcome = "written"
            /\ returned' = "None"
            /\ UNCHANGED <<hm_history, history_file>>
    /\ UNCHANGED <<objects, hm_type, output_file, clock, hm_pc, wvars, pvars>>

\* The lines of an export with the path before the file name.
ExportLinesPathFirst(result) ==
    (IF "file_path" \in DOMAIN result
     THEN <<"Path: " \o result.file_path>> ELSE <<>>)
    \o <<"File: " \o DictGet(result, "file_name", "Unknown"),
         "Language: " \o DictGet(result, "language", "Unknown"),
         "Date: " \o DictGet(result, "date", "Unknown")>>
    \o <<"", "Transcription:", DictGet(result, "text", "")>>

\* What export_item writes, line by line.
ExportLines(result) ==
    <<"File: " \o DictGet(result, "file_name", "Unknown"),
      "Language: " \o DictGet(result, "language", "Unknown"),
      "Date: " \o DictGet(result, "date", "Unknown")>>
    \o (IF "file_path" \in DOMAIN result
        THEN <<"Path: " \o result.file_path>> ELSE <<>>)
    \o <<"", "Transcription:", DictGet(result, "text", "")>>

TextFile(lines) == [kind |-> "text", lines |-> lines]

\* A text file whose writing an exception ended: less than was meant.
CutShort == [kind |-> "cut_short"]

\* export_item(index, output_path), output_path not the history file.
ExportItemCall(index, outcome) ==
    /\ HmReady
    /\ last_call' = Call("export_item")
    /\ IF ~(0 <= index /\ index < Len(hm_history))
       THEN /\ outcome = "written"
            /\ returned' = "False"
            /\ UNCHANGED output_file
       ELSE LET lines == ExportLines(objects[hm_history[index + 1]]) IN
            IF outcome = "written"
            THEN /\ output_file' = TextFile(lines)
                 /\ returned' = "True"
            ELSE IF outcome = "not_opened"
            THEN /\ returned' = "False"
                 /\ UNCHANGED output_file
            ELSE /\ output_file' = CutShort
                 /\ returned' = "False"
    /\ UNCHANGED <<objects, hm_history, hm_type, history_file, clock,
                   hm_pc, wvars, pvars>>

\* The manager AudioTranscriptionApp.__init__ builds when no history was
\* saved before.
NoSavedHistory ==
    /\ objects = <<>>
    /\ hm_history = <<>>
    /\ hm_type = "list"
    /\ history_file = Absent
    /\ output_file = Absent
    /\ clock = 0
    /\ returned = "None"
    /\ last_call = Call("__init__")
    /\ hm_pc = "ready"

\* ------------------------------------------------------- SystemChecker

\* Memory is counted in half gigabytes: ram_available = available / 1e9
\* is host_ram / UnitsPerGB.
UnitsPerGB == 2

\* ram_available < gb
BelowGB(ram, gb) == ram < gb * UnitsPerGB

\* The recommendation with its bounds taken on the wrong side.
RecommendInclusive(ram) ==
    IF ram <= 4 * UnitsPerGB THEN "tiny"
    ELSE IF ram <= 8 * UnitsPerGB THEN "base"
    ELSE IF ram <= 16 * UnitsPerGB THEN "small"
    ELSE "medium"

\* check_system's if / elif chain on info['ram_available']
Recommend(ram) ==
    IF BelowGB(ram, 4) THEN "tiny"
    ELSE IF BelowGB(ram, 8) THEN "base"
    ELSE IF BelowGB(ram, 16) THEN "small"
    ELSE "medium"

\* The info dict as check_system first builds it.
InitialInfo ==
    [device |-> "cpu", gpu_memory |-> 0, ram_available |-> 0,
     recommended_model |-> "base"]

\* Memory of the one GPU modelled, in the units of host_ram.
GpuMemory == 16

\* The info dict check_system returns when nothing raises.
Info(ram, cuda) ==
    [device |-> IF cuda THEN "cuda" ELSE "cpu",
     gpu_memory |-> IF cuda THEN GpuMemory ELSE 0,
     ram_available |-> ram,
     recommended_model |-> Recommend(ram)]

\* The queries check_system makes; "none" = none of them raises.
Queries == {"none", "torch.cuda", "psutil.virtual_memory"}

\* The host's free memory or its GPU comes or goes.
HostChanges(ram, cuda) ==
    /\ <<ram, cuda>> # <<host_ram, host_cuda>>
    /\ host_ram' = ram
    /\ host_cuda' = cuda
    /\ UNCHANGED <<system_info, check_outcome, wvars, hvars>>

\* SystemChecker.check_system(), the query `raising` raising. There is no
\* try: the exception leaves check_system and the caller has no dict.
check_system(raising) ==
    /\ IF raising = "none"
       THEN /\ system_info' = Info(host_ram, host_cuda)
            /\ check_outcome' = "returned"
       ELSE /\ check_outcome' = "raised"
            /\ UNCHANGED system_info
    /\ UNCHANGED <<host_ram, host_cuda, wvars, hvars>>

\* The host the window is started on here, and the check of __init__.
HostOfWindow ==
    /\ host_ram = 6 * UnitsPerGB
    /\ host_cuda = FALSE
    /\ system_info = Info(host_ram, host_cuda)
    /\ check_outcome = "returned"

\* ------------------------------------------------------------ specification
\* AudioTranscriptionApp.__init__: no model, no worker, the history as loaded,
\* and one loader already started for the tier shown in model_combo.
WindowStart ==
    /\ model = None
    /\ model_combo \in Tiers
    /\ transcription_worker = None
    /\ loaders = <<NewModelLoader(model_combo)>>
    /\ model_loader = 1
    /\ tworkers = <<>>
    /\ events = <<>>
    /\ file_path_label = NoFileSelected
    /\ transcribe_btn = TRUE
    /\ cancel_btn = FALSE
    /\ ctl = "run"

\* HistoryManager.get_history: a new list of the same entries.
get_history(h) == [i \in 1..Len(h) |-> h[i]]

\* The item data load_history gives the list widget: enumerate's idx.
ItemIndices(h) == [i \in 1..Len(h) |-> i - 1]

\* load_history of the window, the manager holding `saved`.
LoadHistory(saved) ==
    /\ history = saved
    /\ transcription_history = get_history(saved)
    /\ history_list = ItemIndices(transcription_history)

WindowInit == WindowStart /\ LoadHistory(<<>>)

Init == WindowInit /\ NoSavedHistory /\ HostOfWindow

Next(maxTranscriptions, maxLoads) ==
    \/ \E w \in WorkerIds : WorkerBegin(w)
    \/ \E w \in WorkerIds : WorkerTranscribe(w)
    \/ \E w \in WorkerIds : WorkerExit(w)
    \/ \E l \in LoaderIds : LoaderBegin(l)
    \/ \E l \in LoaderIds : LoaderLoad(l)
    \/ \E l \in LoaderIds : LoaderExit(l)
    \/ \E t \in Tiers : OnModelChanged(t, maxLoads)
    \/ ReloadCurrentModel(maxLoads)
    \/ \E f \in Files : BrowseFile(f)
    \/ StartTranscription(maxTranscriptions)
    \/ CancelTranscription
    \/ CancelReturn
    \/ OnTranscriptionFinished
    \/ OnTranscriptionError
    \/ OnModelLoaded
    \/ OnModelError
    \/ ClearHistory
    \/ CloseEvent
    \/ CloseWorkerJoined
    \/ CloseLoaderJoined

Spec == Init /\ [][Next(MaxTranscriptions, MaxLoads)]_vars

SpecOneJob == Init /\ [][Next(OneJobTranscriptions, OneJobLoads)]_vars

\* What goes on without the user: the threads run (the external calls
\* return or raise), the event loop hands each queued signal to its slot,
\* and a wait() returns once its thread has finished.
ThreadStep(w) ==
    /\ w \in WorkerIds
    /\ WorkerBegin(w) \/ WorkerTranscribe(w) \/ WorkerExit(w)

LoaderStep(l) ==
    /\ l \in LoaderIds
    /\ LoaderBegin(l) \/ LoaderLoad(l) \/ LoaderExit(l)

EventLoop ==
    \/ OnTranscriptionFinished
    \/ OnTranscriptionError
    \/ OnModelLoaded
    \/ OnModelError

WaitReturns == CancelReturn \/ CloseWorkerJoined \/ CloseLoaderJoined

Scheduling ==
    /\ \A w \in 1..OneJobTranscriptions : WF_vars(ThreadStep(w))
    /\ \A l \in 1..(OneJobLoads + 1) : WF_vars(LoaderStep(l))
    /\ WF_vars(EventLoop)
    /\ WF_vars(WaitReturns)

\* One transcription at a time, the threads and the event loop scheduled
\* fairly; the user is free to do nothing.
SpecLive ==
    /\ Init
    /\ [][Next(OneJobTranscriptions, OneJobLoads)]_vars
    /\ Scheduling

\* The histories a window is started on: none saved, or one entry of an
\* earlier session.
SavedHistories == {<<>>, <<[file_path |-> "/in/b.wav", file_name |-> "b.wav"]>>}

MirrorInit ==
    /\ WindowStart
    /\ model_combo = "tiny"
    /\ \E saved \in SavedHistories : LoadHistory(saved)
    /\ NoSavedHistory
    /\ HostOfWindow

\* One transcription at a time, in a window started on a saved history.
SpecMirror == MirrorInit /\ [][Next(OneJobTranscriptions, OneJobLoads)]_vars

\* A history manager on its own: the file it is built on, then the calls
\* of a caller, in any order; the window stands still.
SavedEntry == Stamp(BareResult, 0)

InitialFiles ==
    {Absent, Unparseable, JsonObject, JsonArray(<<EncodeDict(SavedEntry)>>)}

HistoryInit ==
    /\ WindowInit
    /\ model_combo = "tiny"
    /\ objects = <<>>
    /\ hm_history = <<>>
    /\ hm_type = "list"
    /\ history_file \in InitialFiles
    /\ output_file = Absent
    /\ clock = 0
    /\ returned = "None"
    /\ last_call = Call("__init__")
    /\ hm_pc = "new"
    /\ HostOfWindow

\* The calls that change the history.
HistoryNext ==
    \/ HistoryManagerInit
    \/ \E r \in NewResults : NewResult(r)
    \/ Tick
    \/ \E o \in ObjectIds, outcome \in WriteOutcomes :
          AddTranscriptionCall(o, outcome)
    \/ GetHistoryCall
    \/ \E outcome \in WriteOutcomes : ClearHistoryCall(outcome)
    \/ \E index \in Indices, outcome \in WriteOutcomes :
          RemoveItemCall(index, outcome)

SpecHistory == HistoryInit /\ [][HistoryNext]_vars

\* Histories built up and exported.
ExportNext ==
    \/ HistoryManagerInit
    \/ \E r \in NewResults : NewResult(r)
    \/ Tick
    \/ \E o \in ObjectIds : AddTranscriptionCall(o, "written")
    \/ \E o \in ObjectIds : CallerEditsEntry(o)
    \/ \E index \in Indices, outcome \in WriteOutcomes :
          ExportItemCall(index, outcome)

SpecExport == HistoryInit /\ [][ExportNext]_vars

\* Every call, with a caller that also writes to the dicts it holds.
CallersNext ==
    \/ HistoryNext
    \/ \E o \in ObjectIds : CallerEditsEntry(o)
    \/ \E index \in Indices, outcome \in WriteOutcomes :
          ExportItemCall(index, outcome)

SpecCallers == HistoryInit /\ [][CallersNext]_vars

\* The check of __init__ made, check_system is called again
\* (refresh_system_info) on a host that changes.
HostInit ==
    /\ WindowInit
    /\ model_combo = "tiny"
    /\ NoSavedHistory
    /\ host_ram \in 0..MaxRam
    /\ host_cuda \in BOOLEAN
    /\ system_info = Info(host_ram, host_cuda)
    /\ check_outcome = "returned"

ProbeNext ==
    \/ \E ram \in 0..MaxRam, cuda \in BOOLEAN : HostChanges(ram, cuda)
    \/ \E raising \in Queries : check_system(raising)

SpecProbe == HostInit /\ [][ProbeNext]_vars

\* ------------------------------------------------------------------ states
\* A transcription job whose run() has not returned.
Transcribing == \E w \in WorkerIds : tworkers[w].pc \in {"start", "calling"}

\* A model load whose run() has not returned.
LoadingModel == \E l \in LoaderIds : loaders[l].pc \in {"start", "loading"}

\* Every signal of s but the last is a progress.
ProgressBeforeLast(s) == \A i \in 1..Len(s) : i < Len(s) => s[i] = "progress"

\* s ends with its one terminal signal.
EndsWithTerminal(s) ==
    /\ Len(s) >= 1
    /\ s[Len(s)] \in Terminal
    /\ ProgressBeforeLast(s)

\* The slot for `sig` of a `src` worker is the step being taken.
Delivers(src, sig) == NextEvent(src, sig) /\ events' = Tail(events)

\* The queue holds a signal `sig` of transcription worker w.
Queued(w, sig) ==
    \E i \in 1..Len(events) :
        events[i].src = "T" /\ events[i].id = w /\ events[i].sig = sig

\* ------------------------------------------------------------------ claims
\* C1: at most one transcription job is active at any time: a
\* start_transcription taken while an earlier job's run() has not returned
\* creates no second worker.
C1_StartRejectedWhileActive ==
    [][Transcribing => Len(tworkers') = Len(tworkers)]_vars

CancelledRunReturns(w) ==
    /\ tworkers[w].pc \in {"start", "calling"}
    /\ tworkers[w].is_cancelled
    /\ tworkers'[w].pc = "exit"

C4_HistoryGrowsOnCompleted ==
    [][/\ Len(history') > Len(history) => Delivers("T", "finished")
       /\ Delivers("T", "finished") =>
            LET t == tworkers[Head(events).id] IN
              /\ history' = Append(history,
                     [file_path |-> t.audio_file,
                      file_name |-> basename(t.audio_file)])
              /\ Len(transcription_history') = Len(transcription_history) + 1
       /\ Delivers("T", "error") \/ Delivers("L", "error") =>
            history' = history]_vars

\* C4 witness: the one entry of the history is of a file other than the one
\* now selected in the window.
C4_Witness ==
    /\ Len(history) = 1
    /\ history[1].file_name = "b.wav"
    /\ file_path_label = "/in/a.wav"
    /\ events = <<>>

\* C5: a start_transcription taken while the window holds no model, or while
\* a model load is running (a load begun by choosing another tier included),
\* starts no worker.
C5_StartRefusedUnlessReady ==
    [][model = None \/ LoadingModel => Len(tworkers') = Len(tworkers)]_vars

\* C6: a model load and a transcription are never running at the same time.
C6_NoLoadDuringTranscription == ~(LoadingModel /\ Transcribing)

\* C7: a new load starts only with the old model reference dropped, so the
\* window never holds a model while another one is being loaded.
C7_ReselectDiscardsModel ==
    [][Len(loaders') > Len(loaders) => model' = None]_vars

\* C8: once the error signal of a failed job is handled, the window is back
\* where it was before the job: without a model after a failed load; with
\* its model, no load running and the start button enabled after a failed
\* transcription.
C8_FailureRestoresPreJobState ==
    [][/\ Delivers("L", "error") => model' = None
       /\ Delivers("T", "error") =>
            /\ model' # None
            /\ ~LoadingModel'
            /\ transcribe_btn']_vars

\* C9: a run that finds no file at its path emits error and nothing else,
\* returns without having called the model, and never queues finished;
\* handling an error signal leaves the history, in the manager and in the
\* window, as it was.
C9_MissingFileFails ==
    /\ [](\A w \in WorkerIds :
            tworkers[w].missing =>
              /\ tworkers[w].pc = "exit"
              /\ ~tworkers[w].called
              /\ tworkers[w].emitted = <<"error">>
              /\ ~Queued(w, "finished"))
    /\ [][Delivers("T", "error") =>
            /\ history' = history
            /\ transcription_history' = transcription_history
            /\ history_list' = history_list]_vars

\* C9 witness: the error of a run that found no file has been handled, the
\* buttons are reset and the history is still empty.
C9_Witness ==
    /\ \E w \in WorkerIds : tworkers[w].missing /\ ~Queued(w, "error")
    /\ transcribe_btn
    /\ ~cancel_btn
    /\ history = <<>>

\* C10: when closeEvent has returned, no worker or loader ever started is
\* still running.
C10_ShutdownJoinsEveryJob ==
    ctl = "closed" =>
      /\ \A w \in WorkerIds : ~isRunning(tworkers[w])
      /\ \A l \in LoaderIds : ~isRunning(loaders[l])

\* What get_history() hands a caller, read through: the entries by value.
Listing == Entries(hm_history, objects)

\* C11: add(result) on a store holding n entries appends the result as the
\* last entry, the first n entries keeping their content and order,
\* persists the whole sequence at once, and returns the assigned index n.
C11_AddAppendsAndReturnsIndex ==
    [][\A o \in ObjectIds, outcome \in WriteOutcomes :
         AddTranscriptionCall(o, outcome) /\ hm_type = "list" =>
           LET n == Len(hm_history) IN
             /\ Len(hm_history') = n + 1
             /\ hm_history'[n + 1] = o
             /\ \A i \in 1..n : Listing'[i] = Listing[i]
             /\ outcome = "written" =>
                  load_history(history_file').items = Listing'
             /\ returned' = Digits[n + 1]]_vars

\* C12: an entry's creation time is set once: add stamps a result only
\* when it has none, and no operation changes the timestamp a dict
\* already carries.
C12_CreatedAtSetOnce ==
    [][\A o \in ObjectIds :
         "timestamp" \in DOMAIN objects[o] =>
           objects'[o].timestamp = objects[o].timestamp]_vars

\* C13: callers only ever hold copies: a caller writing to an entry of the
\* list get_history gave it, or to a result it passed to add before, does
\* not change what get_history returns next.
C13_CallersHoldCopies ==
    [][\A o \in ObjectIds : CallerEditsEntry(o) => Listing' = Listing]_vars

\* C14: on a store of n entries, remove(i) with 0 <= i < n leaves n-1
\* entries: those before i where they were, those after i one place down,
\* the one at i gone; and the new sequence is what the file then holds.
C14_RemoveShiftsLater ==
    [][\A index \in Indices, outcome \in WriteOutcomes :
         RemoveItemCall(index, outcome) /\ 0 <= index
                                        /\ index < Len(hm_history) =>
           LET n == Len(hm_history) IN
             /\ Len(Listing') = n - 1
             /\ \A j \in 1..index : Listing'[j] = Listing[j]
             /\ \A j \in (index + 2)..n : Listing'[j - 1] = Listing[j]
             /\ outcome = "written" =>
                  load_history(history_file').items = Listing']_vars

\* remove_item has just taken one of two entries, the file following.
C14_Witness ==
    /\ last_call = [method |-> "remove_item", len |-> 2]
    /\ hm_history = <<2>>
    /\ objects[1] # objects[2]
    /\ "timestamp" \in DOMAIN objects[1]
    /\ load_history(history_file).items = Listing

\* C15 as stated: remove with an index out of range changes nothing and
\* returns false, which an in-range remove does not.
C15_OutOfRangeReturnsFalse ==
    [][\A index \in Indices, outcome \in WriteOutcomes :
         RemoveItemCall(index, outcome) =>
           IF 0 <= index /\ index < Len(hm_history)
           THEN returned' # "False"
           ELSE /\ returned' = "False"
                /\ UNCHANGED <<hm_history, objects, history_file>>]_vars

\* C15, amended: remove with an index out of range (negative, or at or
\* past the length, any index on an empty store) changes neither the
\* sequence nor the file; it returns nothing, and so does an in-range
\* remove.
C15_OutOfRangeIsNoOp ==
    [][\A index \in Indices, outcome \in WriteOutcomes :
         RemoveItemCall(index, outcome) =>
           /\ returned' = "None"
           /\ ~(0 <= index /\ index < Len(hm_history)) =>
                UNCHANGED <<hm_history, hm_type, objects, history_file>>]_vars

\* remove_item was called on a store of one entry and the entry is there.
C15_Witness ==
    /\ last_call = [method |-> "remove_item", len |-> 1]
    /\ Len(hm_history) = 1
    /\ returned = "None"

\* A step of add, remove or clear in which save_history ran and its write
\* ended with this outcome.
Saving(outcome) ==
    \/ \E o \in ObjectIds :
         AddTranscriptionCall(o, outcome) /\ hm_type = "list"
    \/ \E index \in Indices :
         RemoveItemCall(index, outcome) /\ 0 <= index
                                        /\ index < Len(hm_history)
    \/ ClearHistoryCall(outcome)

Persisted == Saving("written")

\* C16: after an add, remove or clear whose write succeeded, a manager
\* built anew on the same file holds what this one lists: the same
\* entries in the same order, none after a clear.
C16_RoundTrip ==
    [][Persisted =>
         load_history(history_file') = [type |-> hm_type', items |-> Listing']
      ]_vars

\* Two different entries were added and the file reads back as both.
C16_Witness ==
    /\ last_call = [method |-> "add_transcription", len |-> 1]
    /\ Len(hm_history) = 2
    /\ Listing[1] # Listing[2]
    /\ load_history(history_file).items = Listing

\* A sequence without its item at the 0-based place index.
Without(seq, index) ==
    [j \in 1..(Len(seq) - 1) |-> IF j <= index THEN seq[j] ELSE seq[j + 1]]

\* C17: when the write fails during add, remove or clear, the change to
\* the history in memory stands (the result appended, the entry removed,
\* nothing left) and the manager goes on taking calls.
C17_FailedWriteKeepsMutation ==
    [][\A outcome \in WriteOutcomes \ {"written"} :
         /\ \A o \in ObjectIds :
              AddTranscriptionCall(o, outcome) /\ hm_type = "list" =>
                hm_history' = Append(hm_history, o)
         /\ \A index \in Indices :
              RemoveItemCall(index, outcome) /\ 0 <= index
                                             /\ index < Len(hm_history) =>
                hm_history' = Without(hm_history, index)
         /\ ClearHistoryCall(outcome) => hm_history' = <<>>
         /\ Saving(outcome) => hm_pc' = "ready" /\ hm_type' = hm_type]_vars

\* add_transcription appended an entry the file does not have.
C17_Witness ==
    /\ last_call.method = "add_transcription"
    /\ Len(hm_history) = last_call.len + 1
    /\ hm_type = "list"
    /\ load_history(history_file).items # Listing

\* C18 as stated: a failed write during add, remove or clear is reported
\* to the caller as PersistFailed.
C18_PersistFailureReported ==
    [][\A outcome \in WriteOutcomes \ {"written"} :
         Saving(outcome) => returned' = "PersistFailed"]_vars

\* C18, amended: a failed write during add, remove or clear is not
\* reported: the call returns nothing, as it does when the write
\* succeeds, and raises nothing.
C18_PersistFailureSilent ==
    [][\A outcome \in WriteOutcomes : Saving(outcome) => returned' = "None"
      ]_vars

\* clear_history returned nothing and the file still holds entries.
C18_Witness ==
    /\ last_call.method = "clear_history"
    /\ hm_type = "list"
    /\ hm_history = <<>>
    /\ load_history(history_file).items # <<>>
    /\ returned = "None"

\* C19: building a manager never fails over what the file holds, and the
\* history it starts with is a sequence: the file's entries when the file
\* holds a sequence of entries, none when the file is absent, unparseable
\* or holds something else.
C19_LoadToleratesAnyContent ==
    [][HistoryManagerInit =>
         /\ hm_type' = "list"
         /\ Listing' = IF history_file.kind = "array"
                       THEN [i \in 1..Len(history_file.items) |->
                               DecodeDict(history_file.items[i])]
                       ELSE <<>>]_vars

\* C20: export of an entry in range writes File, Language, Date, then Path
\* exactly when the entry has a file path, an empty line, 'Transcription:'
\* and the text; out of range it fails and writes nothing; either way the
\* history and its file are as before.
C20_ExportWritesEntry ==
    [][\A index \in Indices, outcome \in WriteOutcomes :
         ExportItemCall(index, outcome) =>
           /\ UNCHANGED <<hm_history, hm_type, objects, history_file>>
           /\ IF 0 <= index /\ index < Len(hm_history)
              THEN outcome = "written" =>
                     LET e == Listing[index + 1]
                         L == output_file'.lines
                         n == Len(L)
                     IN  /\ returned' = "True"
                         /\ output_file'.kind = "text"
                         /\ L[1] = "File: " \o DictGet(e, "file_name", "Unknown")
                         /\ L[2] = "Language: "
                                     \o DictGet(e, "language", "Unknown")
                         /\ L[3] = "Date: " \o DictGet(e, "date", "Unknown")
                         /\ IF "file_path" \in DOMAIN e
                            THEN n = 7 /\ L[4] = "Path: " \o e.file_path
                            ELSE n = 6
                         /\ L[n - 2] = ""
                         /\ L[n - 1] = "Transcription:"
                         /\ L[n] = DictGet(e, "text", "")
              ELSE returned' = "False" /\ output_file' = output_file]_vars

\* export_item wrote the entry of a worker's result, file path and all.
C20_Witness ==
    /\ last_call.method = "export_item"
    /\ returned = "True"
    /\ output_file.kind = "text"
    /\ output_file.lines[1] = "File: a.wav"
    /\ output_file.lines[4] = "Path: /in/a.wav"
    /\ Len(hm_history) = 2

\* The tiers from the smallest model to the largest.
TierOrder == <<"tiny", "base", "small", "medium", "large">>
Rank(tier) == CHOOSE i \in 1..Len(TierOrder) : TierOrder[i] = tier

\* C21: the tier recommended for r GB of available memory is tiny below 4,
\* base from 4 and below 8, small from 8 and below 16, medium from 16 on,
\* never large; and of two reports in a row the one with no less memory
\* recommends no smaller tier.
C21_RecommendedTierByRam ==
    /\ [](LET r == system_info.ram_available
              t == system_info.recommended_model
          IN  /\ t = "tiny" <=> r < 4 * UnitsPerGB
              /\ t = "base" <=> 4 * UnitsPerGB <= r /\ r < 8 * UnitsPerGB
              /\ t = "small" <=> 8 * UnitsPerGB <= r /\ r < 16 * UnitsPerGB
              /\ t = "medium" <=> 16 * UnitsPerGB <= r
              /\ t # "large")
    /\ [][system_info.ram_available <= system_info'.ram_available =>
            Rank(system_info.recommended_model)
              <= Rank(system_info'.recommended_model)]_vars

\* A report made at exactly 4 GB, on a host that has 16 GB by now.
C21_Witness ==
    /\ check_outcome = "returned"
    /\ system_info.ram_available = 4 * UnitsPerGB
    /\ system_info.recommended_model = "base"
    /\ host_ram = 16 * UnitsPerGB

\* C22: when the memory or the accelerator query raises, check_system
\* still returns to its caller: a report with device 'cpu', zero memory
\* figures and the tier base.
C22_ProbeFailureDefaults ==
    [][\A raising \in Queries \ {"none"} :
         check_system(raising) =>
           /\ check_outcome' = "returned"
           /\ system_info' = InitialInfo]_vars


\* C23: a tier chosen while a model load is running starts no second
\* loader: the loaders there are, the one the window refers to, its tier
\* and the signals it has queued are as they were, and the running load goes
\* on to deliver its own signals.
C23_SelectDuringLoadIgnored ==
    [][LoaderBusy /\ model_combo' # model_combo =>
         /\ loaders' = loaders
         /\ model_loader' = model_loader
         /\ events' = events
         /\ LoaderBusy']_vars

\* C23 witness: another tier was chosen while the first load was running,
\* and that load, still the only one, has since queued its finished signal.
C23_Witness ==
    /\ Len(loaders) = 1
    /\ model_combo # loaders[1].model_size
    /\ loaders[1].pc = "exit"
    /\ events = <<[src |-> "L", id |-> 1, sig |-> "finished"]>>

\* C24: once the error signal of a failed load is handled the window holds
\* no model, whatever it held before, and start_transcription is refused.
C24_LoadErrorClearsModel ==
    [][Delivers("L", "error") =>
         /\ model' = None
         /\ StartRefusal' # ""]_vars

\* C25 (as stated): the flag is tested before the external call as well as
\* after it: a run whose flag is set when it gets to the call never invokes
\* model.transcribe.
C25_FlaggedBeforeCallNeverCalls ==
    [][\A w \in WorkerIds :
         tworkers[w].pc = "start" /\ tworkers[w].is_cancelled =>
           ~tworkers'[w].called]_vars

\* The step run() takes from its start to the external call or to its
\* return, as a run whose flag is not set takes it.
BeginsAsUnflagged(w) ==
    \E found \in BOOLEAN, sized \in BOOLEAN :
        LET r == RunPrologue([tworkers[w] EXCEPT !.is_cancelled = FALSE],
                             found, sized)
        IN  /\ tworkers'[w].called = ~r.returns
            /\ tworkers'[w].pc = IF r.returns THEN "exit" ELSE "calling"
            /\ tworkers'[w].emitted = tworkers[w].emitted \o r.sigs

\* C25 (amended): the flag is tested at one place only, right after the
\* external call returned.  Up to the call a flagged run does what an
\* unflagged one does, so with its file and model there it invokes
\* model.transcribe; the result of a run flagged during or before the call
\* is dropped after it, no finished signal being emitted.
C25_FlagTestedAfterCallOnly ==
    [][\A w \in WorkerIds :
         /\ tworkers[w].pc = "start" /\ tworkers'[w].pc # "start" =>
              BeginsAsUnflagged(w)
         /\ tworkers[w].pc = "calling" /\ tworkers[w].is_cancelled
              /\ tworkers'[w].pc = "exit" =>
              /\ "finished" \notin
                    {tworkers'[w].emitted[i] : i \in 1..Len(tworkers'[w].emitted)}
              /\ ~Queued(w, "finished")']_vars

\* C25 witness: a run flagged before it began is inside model.transcribe.
C25_Witness ==
    \E w \in WorkerIds :
        /\ tworkers[w].is_cancelled
        /\ tworkers[w].pc = "calling"
        /\ tworkers[w].called
        /\ ctl = "cancel_wait"

\* C26: the control thread never waits for a worker that is inside the
\* external call: cancel_transcription sets the flag and returns, and only
\* closeEvent waits.
C26_ControlNeverWaitsOnCall ==
    \A w \in WorkerIds :
        tworkers[w].pc = "calling" => ctl # "cancel_wait"

\* C27: with no loader running and the model of the last load in the
\* window, that model is of the tier shown in model_combo, the tier chosen
\* last, even if it was chosen while an earlier load was running.
C27_NoSelectionLost ==
    ~LoaderBusy /\ model # None /\ model = model_loader =>
      loaders[model].model_size = model_combo

\* C28: once cancel_transcription has returned for a worker, the finished
\* signal of that worker is never handled, so its result is neither shown
\* nor added to the history.
C28_CancelledResultNeverDelivered ==
    [][\A w \in WorkerIds :
         tworkers[w].is_cancelled /\ ctl = "run" =>
           ~(Delivers("T", "finished") /\ Head(events).id = w)]_vars

\* C29: the list the window keeps is the history of the manager, entry for
\* entry and in the same order, and the items of the list widget are one
\* per entry, each carrying the index of its entry.
C29_WindowMirrorsHistory ==
    /\ Len(transcription_history) = Len(history)
    /\ \A i \in 1..Len(history) : transcription_history[i] = history[i]
    /\ Len(history_list) = Len(history)
    /\ \A i \in 1..Len(history_list) :
         /\ history_list[i] \in 0..(Len(history) - 1)
         /\ history_list[i] = i - 1

\* C29 witness: a window started on one saved entry has added a second.
C29_Witness ==
    /\ Len(history) = 2
    /\ history[1].file_name = "b.wav"
    /\ history[2].file_name = "a.wav"
    /\ history_list = <<0, 1>>

\* Worker w has been started and its run() has not returned.
JobRunning(w) ==
    w \in WorkerIds /\ tworkers[w].pc \in {"start", "calling"}

\* The job of worker w is over for the window: run() has returned, none of
\* its signals waits in the queue, the control thread is in its event loop
\* and the start button is enabled.
BackFromJob(w) ==
    /\ w \in WorkerIds
    /\ tworkers[w].pc \in {"exit", "done"}
    /\ \A sig \in Terminal : ~Queued(w, sig)
    /\ ctl = "run"
    /\ transcribe_btn

\* C30: every transcription that was started leads to a window in which the
\* next one can be started, whether its run ended with finished, with
\* error or flagged; the window is never left waiting for it for good,
\* unless it was closed in between.
C30_TranscriptionEnds ==
    \A w \in 1..OneJobTranscriptions :
        JobRunning(w) ~> (BackFromJob(w) \/ ctl = "closed")

\* C30 witness: a cancelled job is over, cancel_transcription has returned
\* and the start button is enabled again.
C30_Witness ==
    /\ BackFromJob(1)
    /\ tworkers[1].is_cancelled
    /\ tworkers[1].pc = "done"
    /\ ~cancel_btn
====
